---- MODULE Spec2Model ----
(***************************************************************************)
(* Model of the blind-rogue game core: the level generator and entity      *)
(* placement of utils/gameLogic.ts and the game state machine of           *)
(* app/(tabs)/index.tsx (GameScreen).                                      *)
(***************************************************************************)
EXTENDS Integers, Sequences, FiniteSets, TLC

(***************************************************************************)
(* Program constants                                                       *)
(***************************************************************************)
GRID_SIZE == 10
maxRooms == 3
MinStartEndDistance == 5
RoomMinPathLength == 5
RoomMinDistanceToEnd == 5
NumTraps == 2
GoblinCountRange == 3
maxDistance == 3

(***************************************************************************)
(* Bounds of the exploration.  Math.random() is the input of the           *)
(* generator: the bounds restrict the random streams that are explored.    *)
(***************************************************************************)
\* number of entries of StartEndChoices the start/end sampling may return
NumStartEnd == 4
\* number of loop iterations of generateGrid whose random draws make the
\* iteration differ from the greedy, room-less iteration
MaxRandom == 1
\* only levels with at most this many path cells are populated and played
MaxLevelCells == 6
\* the comparator shuffle of generateTraps brings only elements among the
\* first MaxTrapWindow of pathPositions to the positions that are returned
MaxTrapWindow == 2
\* the same for the shuffle of generateGoblins
MaxGoblinWindow == 3
\* pairs of returned positions a shuffle may put out of scan order
MaxTrapInversions == 0
MaxGoblinInversions == 1
\* largest value of Math.floor(Math.random() * directions.length) drawn by
\* generateGoblins
MaxDirectionDraw == 2
\* goblin movement ticks that move a goblin, per level
MaxTicks == 1
\* largest value of Math.floor(Math.random() * 3) drawn by generateGoblins
MaxGoblinDraw == 2
\* handleMove invocations that may be suspended at an await at the same time
MaxInFlightMoves == 1
\* the same four bounds for SpecRace
RaceStartEnd == 1
RaceRandom == 0
RaceGoblinDraw == 0
RaceInFlightMoves == 2
\* pending setTimeout(restartCurrentLevel) timers
MaxRestartTimers == 1
\* pending trap death timers (held by trapCountdownRef or lost by it)
MaxTrapTimers == 2
\* resetGame calls told apart by the counter resets
MaxResets == 0
\* the bounds of the levels in which Hear is explored
HearStartEnd == 1
HearRandom == 0
HearGoblinDraw == 0
HearInFlightMoves == 1
\* the bounds of the levels in which resetGame calls are told apart
LevelStartEnd == 1
LevelRandom == 0
LevelGoblinDraw == 1
LevelInFlightMoves == 1
LevelResets == 1
\* handleHear invocations suspended at once
MaxInFlightHears == 2
\* of the five tick timeouts of a trap countdown, the number that is tracked
MaxTickTimers == 0
\* the bounds of the levels in which the tick timeouts are tracked
TrapStartEnd == 1
TrapRandom == 0
TrapGoblinDraw == 0
TrapInFlightMoves == 1
TrapTickTimers == 2
\* tick timeouts pending at once
MaxPendingTicks == 4
\* the bounds of the levels in which the proximity sampling tick is explored
AudioStartEnd == 1
AudioRandom == 0
AudioGoblinDraw == 1
AudioInFlightMoves == 1
\* the bounds of the levels in which the collaborator may fail
CueStartEnd == 1
CueRandom == 0
CueGoblinDraw == 0
CueInFlightMoves == 1
CueInFlightHears == 1

Coord == 0 .. (GRID_SIZE - 1)
Position == [x : Coord, y : Coord]
Direction == {"up", "down", "left", "right"}
NoDirection == "none"

Pos(px, py) == [x |-> px, y |-> py]

Abs(n) == IF n < 0 THEN -n ELSE n

\* the start/end pairs the sampling loop may draw; it rejects some of them
StartEndChoices ==
  << <<Pos(0, 0), Pos(3, 2)>>,
     <<Pos(1, 1), Pos(2, 3)>>,
     <<Pos(3, 3), Pos(9, 9)>>,
     <<Pos(4, 4), Pos(4, 4)>>,
     <<Pos(9, 4), Pos(2, 2)>>,
     <<Pos(4, 9), Pos(4, 0)>>,
     <<Pos(0, 5), Pos(5, 5)>> >>

(***************************************************************************)
(* utils/gameLogic.ts : pure helpers                                       *)
(***************************************************************************)
getDistance(pos1, pos2) == Abs(pos1.x - pos2.x) + Abs(pos1.y - pos2.y)

isValidPosition(pos) ==
  pos.x >= 0 /\ pos.x < GRID_SIZE /\ pos.y >= 0 /\ pos.y < GRID_SIZE

\* a lookup that indexes the grid by [x][y]
isPathTransposed(g, pos) == IF ~isValidPosition(pos) THEN FALSE ELSE g[pos.x][pos.y] = 1

isPath(g, pos) == IF ~isValidPosition(pos) THEN FALSE ELSE g[pos.y][pos.x] = 1

getAdjacentPosition(current, direction) ==
  CASE direction = "up"    -> Pos(current.x, current.y - 1)
    [] direction = "down"  -> Pos(current.x, current.y + 1)
    [] direction = "left"  -> Pos(current.x - 1, current.y)
    [] direction = "right" -> Pos(current.x + 1, current.y)

checkWin(playerPos, endPos) == playerPos.x = endPos.x /\ playerPos.y = endPos.y

SetCell(g, pos, v) == [g EXCEPT ![pos.y][pos.x] = v]

AllWalls == [yy \in Coord |-> [xx \in Coord |-> 0]]

\* a sampling loop that only rejects start = end
rejectsEqualOnly(s, e) == s.x = e.x /\ s.y = e.y

\* gameLogic.ts 49-53: the condition of the do-while that redraws start and end
startEndRejected(s, e) ==
  (s.x = e.x /\ s.y = e.y) \/ getDistance(s, e) < MinStartEndDistance

(***************************************************************************)
(* generateGrid : one iteration of the carving loop                        *)
(***************************************************************************)
\* the four candidate moves in the order the code pushes them
possibleMoves(cur) ==
  << [pos |-> Pos(cur.x + 1, cur.y), dir |-> "right"],
     [pos |-> Pos(cur.x, cur.y + 1), dir |-> "down"],
     [pos |-> Pos(cur.x - 1, cur.y), dir |-> "left"],
     [pos |-> Pos(cur.x, cur.y - 1), dir |-> "up"] >>

adjacentPathCount(g, checkPos) ==
    (IF checkPos.x > 0 /\ g[checkPos.y][checkPos.x - 1] = 1 THEN 1 ELSE 0)
  + (IF checkPos.x < GRID_SIZE - 1 /\ g[checkPos.y][checkPos.x + 1] = 1 THEN 1 ELSE 0)
  + (IF checkPos.y > 0 /\ g[checkPos.y - 1][checkPos.x] = 1 THEN 1 ELSE 0)
  + (IF checkPos.y < GRID_SIZE - 1 /\ g[checkPos.y + 1][checkPos.x] = 1 THEN 1 ELSE 0)

\* a filter that accepts every wall cell of the grid
isWallMove(g, move) ==
  IF move.pos.x < 0 \/ move.pos.x >= GRID_SIZE \/ move.pos.y < 0 \/ move.pos.y >= GRID_SIZE
    THEN FALSE
  ELSE g[move.pos.y][move.pos.x] = 0

\* gameLogic.ts 76-106: the filter of possibleMoves
isValidMove(g, move) ==
  IF move.pos.x < 0 \/ move.pos.x >= GRID_SIZE \/ move.pos.y < 0 \/ move.pos.y >= GRID_SIZE
    THEN FALSE
  ELSE IF g[move.pos.y][move.pos.x] = 1 THEN FALSE
  ELSE adjacentPathCount(g, move.pos) = 1

validMoves(g, cur) ==
  LET pm == possibleMoves(cur)
      Test(m) == isValidMove(g, m)
  IN  SelectSeq(pm, Test)

\* moves.sort by distance to end is stable: element 0 of the result is the
\* first move, in the original order, of minimal distance
sortedFirst(moves, e) ==
  LET d(i) == getDistance(moves[i].pos, e)
      best == CHOOSE i \in 1 .. Len(moves) :
                /\ \A j \in 1 .. Len(moves) : d(i) <= d(j)
                /\ \A j \in 1 .. (i - 1) : d(j) > d(i)
  IN  moves[best]

turnMovesOf(moves, lastDir) ==
  LET Test(m) == m.dir # lastDir
  IN  SelectSeq(moves, Test)

\* canPlaceRoom, with the guard of the enclosing if
roomAllowed(g, cur, e, rooms, plen) ==
  /\ rooms < maxRooms
  /\ plen > RoomMinPathLength
  /\ getDistance(cur, e) > RoomMinDistanceToEnd
  /\ cur.x > 1 /\ cur.x < GRID_SIZE - 3
  /\ cur.y > 1 /\ cur.y < GRID_SIZE - 3
  /\ g[cur.y][cur.x + 1] = 0
  /\ g[cur.y + 1][cur.x] = 0
  /\ g[cur.y + 1][cur.x + 1] = 0
  /\ cur.x + 1 < GRID_SIZE
  /\ cur.y + 1 < GRID_SIZE

carveRoom(g, cur) ==
  SetCell(SetCell(SetCell(SetCell(g, cur, 1),
                          Pos(cur.x + 1, cur.y), 1),
                  Pos(cur.x, cur.y + 1), 1),
          Pos(cur.x + 1, cur.y + 1), 1)

(***************************************************************************)
(* generateTraps / generateGoblins : the sets of possible results.  The    *)
(* comparator shuffle returns some permutation of pathPositions, so the    *)
(* first k elements are any k distinct path positions in any order.        *)
(***************************************************************************)
isInjective(s) == \A i, j \in DOMAIN s : i # j => s[i] # s[j]

Min(a, b) == IF a < b THEN a ELSE b

Max(a, b) == IF a > b THEN a ELSE b

PathCells(g) == {p \in Position : g[p.y][p.x] = 1}

\* the cells in the order of the scan "for y ... for x ..."
ScanOrder == [i \in 1 .. (GRID_SIZE * GRID_SIZE) |->
                Pos((i - 1) % GRID_SIZE, (i - 1) \div GRID_SIZE)]

\* number of pairs of q that are out of order
inversions(q) ==
  Cardinality({ij \in (DOMAIN q) \X (DOMAIN q) : ij[1] < ij[2] /\ q[ij[1]] > q[ij[2]]})

\* the indices in s the shuffle may put at the returned positions, in order
shuffledIndices(s, n, w, inv) ==
  {q \in [1 .. n -> 1 .. Min(Len(s), w)] : isInjective(q) /\ inversions(q) <= inv}

\* the possible values of shuffled[0 .. n-1]
shuffledPrefix(s, n, w, inv) ==
  {[i \in 1 .. n |-> s[q[i]]] : q \in shuffledIndices(s, n, w, inv)}

\* const directions: Direction[] = ['up', 'down', 'left', 'right']
directions == <<"up", "down", "left", "right">>

\* directions[Math.floor(Math.random() * directions.length)]
randomDirections == {directions[i + 1] : i \in 0 .. Min(Len(directions) - 1, MaxDirectionDraw)}

\* a collection of the path positions that does not leave out start
trapPathPositionsWithStart(g, s, e) ==
  LET Test(pos) == /\ g[pos.y][pos.x] = 1
                   /\ ~(pos.x = e.x /\ pos.y = e.y)
  IN  SelectSeq(ScanOrder, Test)

trapPathPositions(g, s, e) ==
  LET Test(pos) == /\ g[pos.y][pos.x] = 1
                   /\ ~(pos.x = s.x /\ pos.y = s.y)
                   /\ ~(pos.x = e.x /\ pos.y = e.y)
  IN  SelectSeq(ScanOrder, Test)

generateTraps(g, s, e, numTraps) ==
  LET pathPositions == trapPathPositions(g, s, e)
      numTrapsToPlace == Min(numTraps, Len(pathPositions))
  IN  shuffledPrefix(pathPositions, numTrapsToPlace, MaxTrapWindow, MaxTrapInversions)

goblinPathPositions(g, s, e, playerPos) ==
  LET Test(pos) == /\ g[pos.y][pos.x] = 1
                   /\ ~(pos.x = s.x /\ pos.y = s.y)
                   /\ ~(pos.x = e.x /\ pos.y = e.y)
                   /\ ~(pos.x = playerPos.x /\ pos.y = playerPos.y)
  IN  SelectSeq(ScanOrder, Test)

generateGoblins(g, s, e, playerPos, goblinDraw) ==
  LET pathPositions == goblinPathPositions(g, s, e, playerPos)
  IN  UNION { LET n == Min(numGoblins, Len(pathPositions))
              IN  { [i \in 1 .. n |-> [id |-> i, position |-> shuffled[i], direction |-> dirs[i]]] :
                      shuffled \in shuffledPrefix(pathPositions, n, MaxGoblinWindow,
                                                  MaxGoblinInversions),
                      dirs \in [1 .. n -> randomDirections] }
            : numGoblins \in 0 .. Min(GoblinCountRange - 1, goblinDraw) }

isTrap(pos, trapPositions) ==
  \E i \in DOMAIN trapPositions : trapPositions[i].x = pos.x /\ trapPositions[i].y = pos.y

(***************************************************************************)
(* moveGoblin : the set of possible results (the new direction of a        *)
(* blocked goblin is drawn at random among the valid ones)                 *)
(***************************************************************************)
\* a goblin that steps forward without looking at the grid
moveGoblinUnchecked(goblin, g, playerPos) ==
  {[goblin EXCEPT !.position = getAdjacentPosition(goblin.position, goblin.direction)]}

\* a blocked goblin that steps aside but keeps facing the wall
moveGoblinFacingWall(goblin, g, playerPos) ==
  LET nextPos == getAdjacentPosition(goblin.position, goblin.direction)
      validDirections == {dir \in Direction : isPath(g, getAdjacentPosition(goblin.position, dir))}
  IN  IF isPath(g, nextPos)
        THEN {[goblin EXCEPT !.position = nextPos]}
      ELSE IF validDirections = {}
        THEN {goblin}
      ELSE {[goblin EXCEPT !.position = getAdjacentPosition(goblin.position, newDirection)] :
              newDirection \in validDirections}

\* a blocked goblin that waits where it stands instead of turning
moveGoblinWaitsAtWall(goblin, g, playerPos) ==
  LET nextPos == getAdjacentPosition(goblin.position, goblin.direction)
  IN  IF isPath(g, nextPos)
        THEN {[goblin EXCEPT !.position = nextPos]}
      ELSE {goblin}

moveGoblin(goblin, g, playerPos) ==
  LET nextPos == getAdjacentPosition(goblin.position, goblin.direction)
      validDirections == {dir \in Direction : isPath(g, getAdjacentPosition(goblin.position, dir))}
  IN  IF isPath(g, nextPos)
        THEN {[goblin EXCEPT !.position = nextPos]}
      ELSE IF validDirections = {}
        THEN {goblin}
      ELSE {[goblin EXCEPT !.position = getAdjacentPosition(goblin.position, newDirection),
                           !.direction = newDirection] : newDirection \in validDirections}

\* an approach test that looks at the cell the goblin stands on
approachingByPosition(goblin, playerPos) ==
  goblin.position.x = playerPos.x /\ goblin.position.y = playerPos.y

\* an approach test that also holds for a goblin on the player's cell
approachingOrOnCell(goblin, playerPos) ==
  LET nextPos == getAdjacentPosition(goblin.position, goblin.direction)
  IN  \/ nextPos.x = playerPos.x /\ nextPos.y = playerPos.y
      \/ goblin.position.x = playerPos.x /\ goblin.position.y = playerPos.y

\* gameLogic.ts 406-412
isGoblinApproachingPlayer(goblin, playerPos) ==
  LET nextPos == getAdjacentPosition(goblin.position, goblin.direction)
  IN  nextPos.x = playerPos.x /\ nextPos.y = playerPos.y

\* an adjacency test that also accepts the four diagonal neighbours
adjacentWithDiagonals(goblin, playerPos) ==
  LET dx == Abs(goblin.position.x - playerPos.x)
      dy == Abs(goblin.position.y - playerPos.y)
  IN  dx <= 1 /\ dy <= 1 /\ dx + dy > 0

isGoblinAdjacentToPlayer(goblin, playerPos) ==
  LET dx == Abs(goblin.position.x - playerPos.x)
      dy == Abs(goblin.position.y - playerPos.y)
  IN  (dx = 1 /\ dy = 0) \/ (dx = 0 /\ dy = 1)

\* a retreat test that holds only for a goblin with its back to the player
walkingStraightAway(goblin, playerPos) ==
  LET distance == getDistance(goblin.position, playerPos)
      nextPos == getAdjacentPosition(goblin.position, goblin.direction)
  IN  IF distance # 1 THEN FALSE
      ELSE /\ getDistance(nextPos, playerPos) > getDistance(goblin.position, playerPos)
           /\ (nextPos.x = playerPos.x \/ nextPos.y = playerPos.y)

\* gameLogic.ts 418-433
isGoblinWalkingAway(goblin, playerPos) ==
  LET distance == getDistance(goblin.position, playerPos)
      nextPos == getAdjacentPosition(goblin.position, goblin.direction)
  IN  IF distance # 1 THEN FALSE
      ELSE getDistance(nextPos, playerPos) > getDistance(goblin.position, playerPos)

\* Array.prototype.find : index of the first element satisfying Test, 0 if none
findIndex(s, Test(_)) ==
  IF \E i \in DOMAIN s : Test(s[i])
    THEN CHOOSE i \in DOMAIN s : Test(s[i]) /\ \A j \in 1 .. (i - 1) : ~Test(s[j])
    ELSE 0

\* the ambush test of handleMove and handleDoubleTap
isAmbushing(goblin, playerPos) ==
  LET distance == getDistance(goblin.position, playerPos)
  IN  IF distance # 0 /\ distance # 1 THEN FALSE
      ELSE isGoblinApproachingPlayer(goblin, playerPos)

approachingGoblin(gs) ==
  LET Test(goblin) == isAmbushing(goblin, gs.playerPosition)
  IN  findIndex(gs.goblins, Test)

\* the backstab target test of handleDoubleTap
isBackstabTarget(goblin, playerPos) ==
  IF getDistance(goblin.position, playerPos) # 1 THEN FALSE
  ELSE isGoblinWalkingAway(goblin, playerPos)

goblinWalkingAway(gs) ==
  LET Test(goblin) == isBackstabTarget(goblin, gs.playerPosition)
  IN  findIndex(gs.goblins, Test)

\* a filter that keeps the goblin it should remove
keepGoblin(goblins, id) ==
  LET Keep(g) == g.id = id
  IN  SelectSeq(goblins, Keep)

removeGoblin(goblins, id) ==
  LET Keep(g) == g.id # id
  IN  SelectSeq(goblins, Keep)

RemoveAt(s, i) == [j \in 1 .. (Len(s) - 1) |-> IF j < i THEN s[j] ELSE s[j + 1]]

(***************************************************************************)
(* State                                                                   *)
(***************************************************************************)
VARIABLES
  pc,             \* "pick", "carve", "fallback", "generated": inside initializeGame; "run": game running
  grid,           \* generateGrid: grid[y][x], 0 = wall, 1 = path
  start, end,     \* generateGrid: start, end
  current,        \* generateGrid: current
  lastDirection,  \* generateGrid: lastDirection
  straightCount,  \* generateGrid: straightCount
  roomCount,      \* generateGrid: roomCount
  pathLength,     \* generateGrid: path.length
  rnd,            \* random draws spent (see MaxRandom)
  gameState,      \* GameScreen: gameState
  trapCountdown,  \* GameScreen: trapCountdown (NoCountdown = null)
  trapTimers,     \* pending trap death timers; held: trapCountdownRef.current is this timer
  restartTimers,  \* number of pending setTimeout(restartCurrentLevel, 2000)
  moves,          \* handleMove invocations suspended at an await
  ticks,          \* goblin movement ticks that moved a goblin in this level
  tapAge,         \* Date.now() - lastTapTimeRef.current: "zero" (0), "within" (1..299), "old" (>= 300)
  lastLog,        \* console: the last message among those of LogMessage
  isHearing,      \* GameScreen: isHearing
  hears,          \* handleHear invocations suspended at an await
  hearLog,        \* console: the last message of handleHear among those of HearMessage
  goblinIntervals, \* live setInterval timers of startGoblinMovement
  resets,         \* resetGame calls so far, counted up to the bound of the specification
  tickTimers,     \* pending tick timeouts: live (of the countdown in progress), stale (of a cancelled one)
  probe,          \* a goblin and a player position with the results of the goblin predicates on them
  collaborator,   \* expo-av and expo-haptics: "working", or "failing" (their calls fail)
  activeGoblinIds, \* GameScreen: activeGoblinIdsRef.current
  audioRequests   \* the goblin cue calls of the last proximity sampling tick

genVars == <<grid, start, end, current, lastDirection, straightCount,
             roomCount, pathLength, rnd, probe, collaborator, audioRequests>>
timerVars == <<trapCountdown, trapTimers, restartTimers, tickTimers>>
hearVars == <<isHearing, hears, hearLog, activeGoblinIds>>
vars == <<pc, grid, start, end, current, lastDirection, straightCount,
          roomCount, pathLength, rnd, gameState, trapCountdown,
          trapTimers, restartTimers, moves, ticks,
          tapAge, lastLog, isHearing, hears, hearLog, goblinIntervals, resets,
          tickTimers, probe, collaborator, activeGoblinIds, audioRequests>>

\* the console.log messages of handleMove and handleDoubleTap that are recorded
LogMessage ==
  {"Fell off edge! Dying...",
   "Hit a wall / moved in wrong direction! Dying...",
   "Goblin approaching! Player dies...",
   "Valid move! Moving to:",
   "Trap triggered! Player dies...",
   "Attacked approaching goblin! Player dies...",
   "Backstab! Killing goblin:"}
NoLog == "none"

Origin == Pos(0, 0)
NoCountdown == -1

\* clearTimeout(trapCountdownRef.current); trapCountdownRef.current = null
clearTrapCountdown(timers) ==
  LET Keep(t) == ~t.held
  IN  SelectSeq(timers, Keep)

\* no tick timeout is pending
NoTicks == [live |-> 0, stale |-> 0]

\* index.tsx 397-409: the tick timeouts are not kept anywhere, so the ones of a
\* countdown that is cancelled stay pending
cancelTicks(t) == [live |-> 0, stale |-> t.live + t.stale]

\* index.tsx 397-409: for (let i = 0; i < 5; i++) setTimeout(..., i * 1000)
scheduleTicks(t, tickTimeouts) == [cancelTicks(t) EXCEPT !.live = tickTimeouts]

\* index.tsx 402-407: the update of trapCountdown by a tick
tickCountdown(prev) == IF prev # NoCountdown /\ prev > 1 THEN prev - 1 ELSE prev

\* trapCountdownRef.current = null, or overwritten: no timer is held any more
dropTrapCountdownRef(timers) == [k \in DOMAIN timers |-> [timers[k] EXCEPT !.held = FALSE]]

\* trapCountdownRef.current = setTimeout(..., 5000), armed for the cell moved onto
armTrapCountdown(timers, pos) ==
  Append(dropTrapCountdownRef(timers), [cell |-> pos, held |-> TRUE])

\* value of gameState while initializeGame has not returned
NoGame ==
  [grid |-> AllWalls, playerPosition |-> Origin, startPosition |-> Origin,
   endPosition |-> Origin, trapPositions |-> << >>, goblins |-> << >>,
   status |-> "none"]

GenInit ==
  /\ grid = AllWalls
  /\ start = Origin /\ end = Origin /\ current = Origin
  /\ lastDirection = NoDirection
  /\ straightCount = 0 /\ roomCount = 0 /\ pathLength = 0
  /\ rnd = 0

\* the locals of generateGrid go out of scope
GenReset ==
  /\ grid' = AllWalls
  /\ start' = Origin /\ end' = Origin /\ current' = Origin
  /\ lastDirection' = NoDirection
  /\ straightCount' = 0 /\ roomCount' = 0 /\ pathLength' = 0
  /\ rnd' = 0

\* no goblin predicate has been applied
NoProbe ==
  [goblin |-> [id |-> 0, position |-> Origin, direction |-> "up"],
   playerPos |-> Origin, applied |-> FALSE,
   approaching |-> FALSE, walkingAway |-> FALSE, adjacent |-> FALSE,
   ambushing |-> FALSE, doubleTap |-> "none"]

InitWith(c) ==
  /\ pc = "pick"
  /\ GenInit
  /\ gameState = NoGame
  /\ trapCountdown = NoCountdown
  /\ trapTimers = << >>
  /\ restartTimers = 0
  /\ moves = << >>
  /\ ticks = 0
  /\ tapAge = "old"
  /\ lastLog = NoLog
  /\ isHearing = FALSE
  /\ hears = << >>
  /\ hearLog = NoLog
  /\ goblinIntervals = 0
  /\ resets = 0
  /\ tickTimers = NoTicks
  /\ probe = NoProbe
  /\ collaborator = c
  /\ activeGoblinIds = {}
  /\ audioRequests = {}

\* index.tsx 58-72: the state of the screen when it is first rendered
Init == InitWith("working")

gameVars == <<gameState, trapCountdown, trapTimers,
              restartTimers, moves, ticks, tapAge, lastLog,
              isHearing, hears, hearLog, goblinIntervals, resets, tickTimers,
              probe, collaborator, activeGoblinIds, audioRequests>>

(***************************************************************************)
(* initializeGame -> generateGrid                                          *)
(***************************************************************************)
\* gameLogic.ts 36-62: rejection sampling of start and end, marking both as path
PickStartEnd(numStartEnd) ==
  /\ pc = "pick"
  /\ \E i \in 1 .. Min(numStartEnd, Len(StartEndChoices)) :
       LET s == StartEndChoices[i][1]
           e == StartEndChoices[i][2]
       IN  /\ ~startEndRejected(s, e)
           /\ start' = s /\ end' = e
           /\ grid' = SetCell(SetCell(AllWalls, s, 1), e, 1)
           /\ current' = s
  /\ lastDirection' = NoDirection
  /\ straightCount' = 0 /\ roomCount' = 0 /\ pathLength' = 1
  /\ pc' = "carve"
  /\ UNCHANGED rnd
  /\ UNCHANGED gameVars

\* the moves the random policy of lines 113-157 can choose from
candidateMoves(vm, sc, lastDir) ==
  IF sc >= 1 /\ lastDir # NoDirection /\ Len(vm) > 1 /\ Len(turnMovesOf(vm, lastDir)) > 0
    THEN turnMovesOf(vm, lastDir)
    ELSE vm

nextStraightCount(vm, sc, lastDir, chosenMove) ==
  IF sc >= 1 /\ lastDir # NoDirection /\ Len(vm) > 1 /\ Len(turnMovesOf(vm, lastDir)) > 0
    THEN 0
  ELSE IF chosenMove.dir = lastDir THEN sc + 1
  ELSE 0

\* gameLogic.ts 65-198: one iteration of the carving loop that does not break
CarveStep(maxRandom) ==
  /\ pc = "carve"
  /\ current # end
  /\ LET vm == validMoves(grid, current)
         cands == candidateMoves(vm, straightCount, lastDirection)
     IN  /\ Len(vm) > 0
         /\ \E k \in 1 .. Len(cands), room \in BOOLEAN :
              LET chosenMove == cands[k]
                  greedy == chosenMove = sortedFirst(cands, end)
                  g1 == SetCell(grid, chosenMove.pos, 1)
                  cost == (IF greedy THEN 0 ELSE 1) + (IF room THEN 1 ELSE 0)
              IN  /\ rnd + cost <= maxRandom
                  /\ room => roomAllowed(g1, chosenMove.pos, end, roomCount, pathLength + 1)
                  /\ rnd' = rnd + cost
                  /\ straightCount' = nextStraightCount(vm, straightCount, lastDirection, chosenMove)
                  /\ current' = chosenMove.pos
                  /\ lastDirection' = chosenMove.dir
                  /\ pathLength' = pathLength + 1
                  /\ grid' = IF room THEN carveRoom(g1, chosenMove.pos) ELSE g1
                  /\ roomCount' = IF room THEN roomCount + 1 ELSE roomCount
  /\ UNCHANGED <<pc, start, end>>
  /\ UNCHANGED gameVars

\* gameLogic.ts 65 and 108-111: the carving loop ends
CarveBreak ==
  /\ pc = "carve"
  /\ \/ current = end
     \/ Len(validMoves(grid, current)) = 0
  /\ pc' = "fallback"
  /\ UNCHANGED genVars
  /\ UNCHANGED gameVars

\* a walk that advances in x and in y in the same iteration
fallbackDiagonal(cur, e) ==
  Pos(IF cur.x < e.x THEN cur.x + 1 ELSE IF cur.x > e.x THEN cur.x - 1 ELSE cur.x,
      IF cur.y < e.y THEN cur.y + 1 ELSE IF cur.y > e.y THEN cur.y - 1 ELSE cur.y)

\* a walk that reduces y before x
fallbackYFirst(cur, e) ==
  IF cur.y < e.y THEN Pos(cur.x, cur.y + 1)
  ELSE IF cur.y > e.y THEN Pos(cur.x, cur.y - 1)
  ELSE IF cur.x < e.x THEN Pos(cur.x + 1, cur.y)
  ELSE IF cur.x > e.x THEN Pos(cur.x - 1, cur.y)
  ELSE cur

\* gameLogic.ts 203-211: the cell the direct walk moves to
fallbackNext(cur, e) ==
  IF cur.x < e.x THEN Pos(cur.x + 1, cur.y)
  ELSE IF cur.x > e.x THEN Pos(cur.x - 1, cur.y)
  ELSE IF cur.y < e.y THEN Pos(cur.x, cur.y + 1)
  ELSE IF cur.y > e.y THEN Pos(cur.x, cur.y - 1)
  ELSE cur

\* gameLogic.ts 202-213: one iteration of the direct walk to end
FallbackStep ==
  /\ pc = "fallback"
  /\ current # end
  /\ current' = fallbackNext(current, end)
  /\ grid' = SetCell(grid, fallbackNext(current, end), 1)
  /\ UNCHANGED <<pc, start, end, lastDirection, straightCount, roomCount,
                 pathLength, rnd>>
  /\ UNCHANGED gameVars

\* gameLogic.ts 216: return { grid, start, end }
GridReturn ==
  /\ pc = "fallback"
  /\ current = end
  /\ pc' = "generated"
  /\ UNCHANGED genVars
  /\ UNCHANGED gameVars

\* index.tsx 75-77: clearInterval of the interval goblinMovementIntervalRef holds
clearGoblinMovement(intervals) == IF intervals > 0 THEN intervals - 1 ELSE intervals

\* a startGoblinMovement that leaves the running interval alone
startWithoutClear(intervals) == intervals + 1

\* index.tsx 74-95: startGoblinMovement replaces the interval the ref holds
startGoblinMovement(intervals) == clearGoblinMovement(intervals) + 1

\* index.tsx 98-104: startGoblinAudio replaces the sampling interval and
\* empties activeGoblinIdsRef.current
startGoblinAudio == {}

\* gameLogic.ts 457-472 and index.tsx 58 / 182-183 / 187, 227-231: traps and goblins are
\* placed and the new GameState becomes the state of the screen
InitializeGame(goblinDraw) ==
  /\ pc = "generated"
  /\ Cardinality(PathCells(grid)) <= MaxLevelCells
  /\ \E trapPositions \in generateTraps(grid, start, end, NumTraps) :
       \E goblins \in generateGoblins(grid, start, end, start, goblinDraw) :
         gameState' = [grid |-> grid, playerPosition |-> start,
                       startPosition |-> start, endPosition |-> end,
                       trapPositions |-> trapPositions, goblins |-> goblins,
                       status |-> "playing"]
  /\ pc' = "run"
  /\ GenReset
  /\ goblinIntervals' = startGoblinMovement(goblinIntervals)
  /\ UNCHANGED <<trapCountdown, trapTimers,
                 restartTimers, moves, ticks, tapAge, lastLog, resets, probe,
                 tickTimers, collaborator, audioRequests>>
  /\ activeGoblinIds' = startGoblinAudio
  /\ UNCHANGED <<isHearing, hears, hearLog>>

(***************************************************************************)
(* GameScreen                                                              *)
(***************************************************************************)
\* the states of the audio/haptic collaborator
CollaboratorState == {"working", "failing"}

\* part_000 60-87, 284-297, 484-511: every cue function catches its own
\* errors, so its promise resolves whatever expo-av does
audioCue(c) == "resolved"

\* expo-haptics: the promise of a haptic call rejects when the call fails
hapticCue(c) == IF c = "failing" THEN "rejected" ELSE "resolved"

\* a promise awaited as it is
uncaught(outcome) == outcome

\* index.tsx 308-309, 366-367, 396, 401, 422-423, 442-446:
\* p.catch(console.warn) resolves whether p resolves or rejects
caught(outcome) == "resolved"

\* one of the awaits of a handler throws
throws(outcomes) == \E k \in DOMAIN outcomes : caught(outcomes[k]) = "rejected"

\* setGameState((prev) => ({ ...prev, status: 'dead' }))
setDead(gs) == [gs EXCEPT !.status = "dead"]

\* a tick that is skipped only when there is no goblin
tickSkippedWhenEmpty(prev) == Len(prev.goblins) = 0

\* index.tsx 81-83: the tick returns prev
tickSkipped(prev) == prev.status # "playing" \/ Len(prev.goblins) = 0

\* index.tsx 79-94: the goblin movement interval fires
GoblinTick ==
  /\ pc = "run"
  /\ goblinIntervals > 0
  /\ IF tickSkipped(gameState)
       THEN UNCHANGED <<gameState, ticks>>
       ELSE \E updatedGoblins \in
                 [1 .. Len(gameState.goblins) ->
                    UNION {moveGoblin(gameState.goblins[i], gameState.grid, gameState.playerPosition) :
                             i \in 1 .. Len(gameState.goblins)}] :
              /\ \A i \in 1 .. Len(gameState.goblins) :
                   updatedGoblins[i] \in moveGoblin(gameState.goblins[i], gameState.grid,
                                                    gameState.playerPosition)
              /\ ticks < MaxTicks
              /\ ticks' = ticks + 1
              /\ gameState' = [gameState EXCEPT !.goblins = updatedGoblins]
  /\ UNCHANGED <<pc, moves, tapAge, lastLog>>
  /\ UNCHANGED genVars
  /\ UNCHANGED hearVars
  /\ UNCHANGED <<goblinIntervals, resets>>
  /\ UNCHANGED timerVars

\* a handleMove without the wall check
fatalOffGrid(gs, newPos) ==
  \/ ~isValidPosition(newPos)
  \/ approachingGoblin(gs) # 0

\* the fatal cases of handleMove: edge (302), wall (319), ambush (349)
isFatalMove(gs, newPos) ==
  \/ ~isValidPosition(newPos)
  \/ ~isPath(gs.grid, newPos)
  \/ approachingGoblin(gs) # 0

\* the message handleMove logs for its outcome (304, 321, 351, 365)
moveLog(gs, newPos) ==
  IF ~isValidPosition(newPos) THEN "Fell off edge! Dying..."
  ELSE IF ~isPath(gs.grid, newPos) THEN "Hit a wall / moved in wrong direction! Dying..."
  ELSE IF approachingGoblin(gs) # 0 THEN "Goblin approaching! Player dies..."
  ELSE "Valid move! Moving to:"

\* index.tsx 290-367: handleMove up to its first await.  A fatal move sets
\* status dead and leads to setTimeout(restartCurrentLevel); a valid move is
\* suspended at the step cue with the gameState of its closure.
HandleMoveWith(direction, inFlight, c) ==
  /\ pc = "run"
  /\ LET newPos == getAdjacentPosition(gameState.playerPosition, direction)
     IN  IF gameState.status # "playing"
           THEN UNCHANGED <<gameState, restartTimers, moves, lastLog>>
         ELSE IF isFatalMove(gameState, newPos)
           THEN /\ restartTimers < MaxRestartTimers
                /\ gameState' = setDead(gameState)
                /\ restartTimers' = IF throws(<<audioCue(c), hapticCue(c)>>)
                                      THEN restartTimers
                                      ELSE restartTimers + 1
                /\ lastLog' = moveLog(gameState, newPos)
                /\ UNCHANGED moves
         ELSE /\ Len(moves) < inFlight
              /\ moves' = Append(moves, [snap |-> gameState, newPos |-> newPos, at |-> "step"])
              /\ lastLog' = moveLog(gameState, newPos)
              /\ UNCHANGED <<gameState, restartTimers>>
  /\ UNCHANGED <<pc, trapCountdown, trapTimers, tickTimers, ticks, tapAge>>
  /\ UNCHANGED genVars
  /\ UNCHANGED hearVars
  /\ UNCHANGED <<goblinIntervals, resets>>

\* handleMove with the collaborator as it is
HandleMove(direction, inFlight) == HandleMoveWith(direction, inFlight, collaborator)

\* a commit of the snapshot without the new position
updatedStateStale(m) == m.snap

\* const updatedState = { ...gameState, playerPosition: newPos }
updatedState(m) == [m.snap EXCEPT !.playerPosition = m.newPos]

\* index.tsx 369-389 and 433-449: after the step cue the countdown is
\* cleared; a move onto a trap waits for the trap cue, a winning move for
\* the win cue, any other move is committed.  An await that throws ends
\* the handler in its catch block (450-452).
MoveAfterStepWith(i, c) ==
  /\ pc = "run"
  /\ i \in DOMAIN moves
  /\ moves[i].at = "step"
  /\ IF throws(<<audioCue(c), hapticCue(c), audioCue(c)>>)
       THEN /\ moves' = RemoveAt(moves, i)
            /\ UNCHANGED <<gameState, trapTimers, tickTimers, trapCountdown>>
       ELSE /\ trapTimers' = clearTrapCountdown(trapTimers)
            /\ tickTimers' = cancelTicks(tickTimers)
            /\ trapCountdown' = NoCountdown
            /\ IF isTrap(moves[i].newPos, moves[i].snap.trapPositions)
                 THEN /\ moves' = [moves EXCEPT ![i].at = "trapCue"]
                      /\ UNCHANGED gameState
               ELSE IF checkWin(moves[i].newPos, moves[i].snap.endPosition)
                 THEN /\ moves' = [moves EXCEPT ![i].at = "winCue"]
                      /\ UNCHANGED gameState
               ELSE /\ gameState' = updatedState(moves[i])
                    /\ moves' = RemoveAt(moves, i)
  /\ UNCHANGED <<pc, restartTimers, ticks, tapAge, lastLog>>
  /\ UNCHANGED genVars
  /\ UNCHANGED hearVars
  /\ UNCHANGED <<goblinIntervals, resets>>

\* the step after the step cue with the collaborator as it is
MoveAfterStep(i) == MoveAfterStepWith(i, collaborator)

\* index.tsx 396-449: after the trap cue the death timer is armed; the move
\* is committed unless it wins too
MoveAfterTrapCueWith(i, tickTimeouts, c) ==
  /\ pc = "run"
  /\ i \in DOMAIN moves
  /\ moves[i].at = "trapCue"
  /\ Len(trapTimers) < MaxTrapTimers
  /\ tickTimers.live + tickTimers.stale + tickTimeouts <= MaxPendingTicks
  /\ IF throws(<<audioCue(c)>>)
       THEN /\ moves' = RemoveAt(moves, i)
            /\ UNCHANGED <<gameState, trapTimers, tickTimers>>
     ELSE IF checkWin(moves[i].newPos, moves[i].snap.endPosition)
       THEN /\ trapTimers' = clearTrapCountdown(armTrapCountdown(trapTimers, moves[i].newPos))
            /\ tickTimers' = cancelTicks(scheduleTicks(tickTimers, tickTimeouts))
            /\ moves' = [moves EXCEPT ![i].at = "winCue"]
            /\ UNCHANGED gameState
       ELSE /\ trapTimers' = armTrapCountdown(trapTimers, moves[i].newPos)
            /\ tickTimers' = scheduleTicks(tickTimers, tickTimeouts)
            /\ gameState' = updatedState(moves[i])
            /\ moves' = RemoveAt(moves, i)
  /\ UNCHANGED <<pc, trapCountdown, restartTimers, ticks, tapAge, lastLog>>
  /\ UNCHANGED genVars
  /\ UNCHANGED hearVars
  /\ UNCHANGED <<goblinIntervals, resets>>

\* the step after the trap cue with the collaborator as it is
MoveAfterTrapCue(i, tickTimeouts) == MoveAfterTrapCueWith(i, tickTimeouts, collaborator)

\* index.tsx 444-449: after the win cue the winning state is committed
MoveCommitWinWith(i, c) ==
  /\ pc = "run"
  /\ i \in DOMAIN moves
  /\ moves[i].at = "winCue"
  /\ gameState' = IF throws(<<audioCue(c), audioCue(c), hapticCue(c)>>)
                    THEN gameState
                    ELSE [updatedState(moves[i]) EXCEPT !.status = "won"]
  /\ moves' = RemoveAt(moves, i)
  /\ UNCHANGED <<pc, ticks, tapAge, lastLog>>
  /\ UNCHANGED genVars
  /\ UNCHANGED hearVars
  /\ UNCHANGED <<goblinIntervals, resets>>
  /\ UNCHANGED timerVars

\* the step after the win cue with the collaborator as it is
MoveCommitWin(i) == MoveCommitWinWith(i, collaborator)

\* index.tsx 412-430: a trap death timer fires; the restart is scheduled in
\* the then() that follows playAttackSound().catch(console.warn)
TrapTimerFireWith(k, c) ==
  /\ pc = "run"
  /\ k \in DOMAIN trapTimers
  /\ restartTimers < MaxRestartTimers
  /\ gameState' = setDead(gameState)
  /\ trapCountdown' = NoCountdown
  /\ trapTimers[k].held => tickTimers.live = 0
  /\ trapTimers' = dropTrapCountdownRef(RemoveAt(trapTimers, k))
  /\ restartTimers' = IF throws(<<audioCue(c)>>) THEN restartTimers ELSE restartTimers + 1
  /\ UNCHANGED tickTimers
  /\ lastLog' = "Trap triggered! Player dies..."
  /\ UNCHANGED <<pc, moves, ticks, tapAge>>
  /\ UNCHANGED genVars
  /\ UNCHANGED hearVars
  /\ UNCHANGED <<goblinIntervals, resets>>

\* the trap death timer with the collaborator as it is
TrapTimerFire(k) == TrapTimerFireWith(k, collaborator)

\* a restart that leaves the player where they died
restartKeepsPosition(gs) == [gs EXCEPT !.status = "playing"]

\* index.tsx 205-210: the state restartCurrentLevel sets
restartCurrentLevel(gs) ==
  [gs EXCEPT !.playerPosition = gs.startPosition, !.status = "playing"]

\* index.tsx 194-224: a setTimeout(restartCurrentLevel) timer fires
RestartTimerFire ==
  /\ pc = "run"
  /\ restartTimers > 0
  /\ restartTimers' = restartTimers - 1
  /\ trapTimers' = clearTrapCountdown(trapTimers)
  /\ tickTimers' = cancelTicks(tickTimers)
  /\ trapCountdown' = NoCountdown
  /\ gameState' = restartCurrentLevel(gameState)
  /\ UNCHANGED <<pc, moves, ticks, tapAge, lastLog>>
  /\ UNCHANGED genVars
  /\ isHearing' = FALSE
  /\ goblinIntervals' = startGoblinMovement(goblinIntervals)
  /\ activeGoblinIds' = startGoblinAudio
  /\ UNCHANGED <<hears, hearLog, resets>>

\* a double tap that looks for a goblin to backstab before it looks for an ambush
backstabFirst(gs) ==
  IF goblinWalkingAway(gs) # 0 THEN "backstab"
  ELSE IF approachingGoblin(gs) # 0 THEN "dead"
  ELSE "none"

\* index.tsx 530-583: what a second tap within the window does
doubleTapOutcome(gs) ==
  IF approachingGoblin(gs) # 0 THEN "dead"
  ELSE IF goblinWalkingAway(gs) # 0 THEN "backstab"
  ELSE "none"

\* a kill that records its own time as the time of the last tap
recordLastTap == "zero"

\* index.tsx 552, 581: lastTapTimeRef.current = 0, so that the elapsed time at
\* the next tap is Date.now()
resetLastTap == "old"

\* a window test without the upper limit of 300 ms
isLaterTap(age) == age # "zero"

\* index.tsx 527: timeSinceLastTap > 0 && timeSinceLastTap < 300
isDoubleTap(age) == age = "within"

\* index.tsx 518-588: handleDoubleTap
HandleDoubleTap ==
  /\ pc = "run"
  /\ IF gameState.status # "playing"
       THEN UNCHANGED <<gameState, restartTimers, tapAge, lastLog>>
     ELSE IF isDoubleTap(tapAge) /\ doubleTapOutcome(gameState) = "dead"
       THEN /\ restartTimers < MaxRestartTimers
            /\ gameState' = setDead(gameState)
            /\ restartTimers' = restartTimers + 1
            /\ lastLog' = "Attacked approaching goblin! Player dies..."
            /\ tapAge' = resetLastTap
     ELSE IF isDoubleTap(tapAge) /\ doubleTapOutcome(gameState) = "backstab"
       THEN /\ gameState' =
                 [gameState EXCEPT !.goblins =
                    removeGoblin(gameState.goblins,
                                 gameState.goblins[goblinWalkingAway(gameState)].id)]
            /\ lastLog' = "Backstab! Killing goblin:"
            /\ tapAge' = resetLastTap
            /\ UNCHANGED restartTimers
     ELSE /\ tapAge' = "zero"
          /\ UNCHANGED <<gameState, restartTimers, lastLog>>
  /\ UNCHANGED <<pc, trapCountdown, trapTimers, tickTimers, moves, ticks>>
  /\ UNCHANGED genVars
  /\ UNCHANGED hearVars
  /\ UNCHANGED <<goblinIntervals, resets>>

\* time passes between two taps
TimePasses ==
  /\ pc = "run"
  /\ tapAge # "old"
  /\ tapAge' = IF tapAge = "zero" THEN "within" ELSE "old"
  /\ UNCHANGED <<pc, gameState, moves, ticks, lastLog>>
  /\ UNCHANGED genVars
  /\ UNCHANGED hearVars
  /\ UNCHANGED <<goblinIntervals, resets>>
  /\ UNCHANGED timerVars

\* index.tsx 161-182: resetGame (the continue button shown when won) up to
\* the call of initializeGame; gameState is replaced when it returns
ResetGame(maxResets) ==
  /\ pc = "run"
  /\ gameState.status = "won"
  /\ trapTimers' = clearTrapCountdown(trapTimers)
  /\ tickTimers' = cancelTicks(tickTimers)
  /\ trapCountdown' = NoCountdown
  /\ gameState' = NoGame
  /\ pc' = "pick"
  /\ ticks' = 0
  /\ UNCHANGED <<restartTimers, moves, tapAge, lastLog>>
  /\ UNCHANGED genVars
  /\ isHearing' = FALSE
  /\ goblinIntervals' = clearGoblinMovement(goblinIntervals)
  /\ resets' = IF resets < maxResets THEN resets + 1 ELSE resets
  /\ UNCHANGED <<hears, hearLog, activeGoblinIds>>

\* index.tsx 399-408: a tick timeout fires, of the countdown in progress or of
\* a cancelled one: playTickSound, then the update of trapCountdown
TickTimerFire(cancelled) ==
  /\ pc = "run"
  /\ IF cancelled
       THEN /\ tickTimers.stale > 0
            /\ tickTimers' = [tickTimers EXCEPT !.stale = @ - 1]
       ELSE /\ tickTimers.live > 0
            /\ tickTimers' = [tickTimers EXCEPT !.live = @ - 1]
  /\ trapCountdown' = tickCountdown(trapCountdown)
  /\ UNCHANGED <<pc, gameState, trapTimers, restartTimers, moves, ticks, tapAge,
                 lastLog, goblinIntervals, resets>>
  /\ UNCHANGED genVars
  /\ UNCHANGED hearVars

\* the console.log messages of handleHear that are recorded
HearMessage ==
  {"Hear blocked - isHearing: true status: playing",
   "Hear blocked - isHearing: true status: dead",
   "Hear blocked - isHearing: true status: won",
   "Hear blocked - isHearing: false status: dead",
   "Hear blocked - isHearing: false status: won",
   "Edge detected - playing wind sound",
   "Wall detected - playing wind sound",
   "Path detected - playing cave sound"}

\* index.tsx 249: console.log('Hear blocked - isHearing:', isHearing, 'status:', status)
hearBlockedLog(hearing, status) ==
  IF hearing
    THEN CASE status = "playing" -> "Hear blocked - isHearing: true status: playing"
           [] status = "dead" -> "Hear blocked - isHearing: true status: dead"
           [] OTHER -> "Hear blocked - isHearing: true status: won"
    ELSE CASE status = "dead" -> "Hear blocked - isHearing: false status: dead"
           [] OTHER -> "Hear blocked - isHearing: false status: won"

\* a guard of Hear that looks at isHearing only
hearBlockedByGuard(hearing, gs) == hearing

\* index.tsx 248: the condition under which handleHear returns at once
hearBlocked(hearing, gs) == hearing \/ gs.status # "playing"

\* a Hear that probes from the start cell of the level
hearFromStart(gs, direction) ==
  LET adjacentPos == getAdjacentPosition(gs.startPosition, direction)
  IN  IF ~isValidPosition(adjacentPos) THEN "Edge detected - playing wind sound"
      ELSE IF ~isPath(gs.grid, adjacentPos) THEN "Wall detected - playing wind sound"
      ELSE "Path detected - playing cave sound"

\* index.tsx 257-277: the cell next to the player that handleHear classifies
hearResult(gs, direction) ==
  LET adjacentPos == getAdjacentPosition(gs.playerPosition, direction)
  IN  IF ~isValidPosition(adjacentPos) THEN "Edge detected - playing wind sound"
      ELSE IF ~isPath(gs.grid, adjacentPos) THEN "Wall detected - playing wind sound"
      ELSE "Path detected - playing cave sound"

\* a Hear that also steps onto the cell it probes when that cell is path
hearAndStep(direction, inFlight) ==
  /\ pc = "run"
  /\ IF hearBlocked(isHearing, gameState)
       THEN /\ hearLog' = hearBlockedLog(isHearing, gameState.status)
            /\ UNCHANGED <<isHearing, hears, gameState>>
       ELSE /\ Len(hears) < inFlight
            /\ isHearing' = TRUE
            /\ hears' = Append(hears, [cue |-> hearResult(gameState, direction),
                                       at |-> "hearSound"])
            /\ gameState' =
                 IF hearResult(gameState, direction) = "Path detected - playing cave sound"
                   THEN [gameState EXCEPT !.playerPosition =
                           getAdjacentPosition(gameState.playerPosition, direction)]
                   ELSE gameState
            /\ UNCHANGED hearLog
  /\ UNCHANGED <<pc, moves, ticks, tapAge, lastLog, goblinIntervals, resets,
                 activeGoblinIds>>
  /\ UNCHANGED genVars
  /\ UNCHANGED timerVars

\* index.tsx 245-256: handleHear up to its first await; the cue is decided by
\* the gameState of the closure (257, 263-277)
HandleHear(direction, inFlight) ==
  /\ pc = "run"
  /\ IF hearBlocked(isHearing, gameState)
       THEN /\ hearLog' = hearBlockedLog(isHearing, gameState.status)
            /\ UNCHANGED <<isHearing, hears>>
       ELSE /\ Len(hears) < inFlight
            /\ isHearing' = TRUE
            /\ hears' = Append(hears, [cue |-> hearResult(gameState, direction),
                                       at |-> "hearSound"])
            /\ UNCHANGED hearLog
  /\ UNCHANGED <<pc, gameState, moves, ticks, tapAge, lastLog, goblinIntervals, resets,
                 activeGoblinIds>>
  /\ UNCHANGED genVars
  /\ UNCHANGED timerVars

\* index.tsx 256-277: after playHearSound and the 100 ms delay the result cue
\* is requested; an await that throws ends the handler in its catch and
\* finally blocks (280-284)
HearResultWith(i, c) ==
  /\ pc = "run"
  /\ i \in DOMAIN hears
  /\ hears[i].at = "hearSound"
  /\ IF throws(<<audioCue(c)>>)
       THEN /\ isHearing' = FALSE
            /\ hears' = RemoveAt(hears, i)
            /\ UNCHANGED hearLog
       ELSE /\ hearLog' = hears[i].cue
            /\ hears' = [hears EXCEPT ![i].at = "cue"]
            /\ UNCHANGED isHearing
  /\ UNCHANGED <<pc, gameState, moves, ticks, tapAge, lastLog,
                 goblinIntervals, resets, activeGoblinIds>>
  /\ UNCHANGED genVars
  /\ UNCHANGED timerVars

\* the result cue of Hear with the collaborator as it is
HearResult(i) == HearResultWith(i, collaborator)

\* index.tsx 277-284: after the cue and the haptic, finally setIsHearing(false)
HearFinish(i) ==
  /\ pc = "run"
  /\ i \in DOMAIN hears
  /\ hears[i].at = "cue"
  /\ isHearing' = FALSE
  /\ hears' = RemoveAt(hears, i)
  /\ UNCHANGED <<pc, gameState, moves, ticks, tapAge, lastLog, hearLog,
                 goblinIntervals, resets, activeGoblinIds>>
  /\ UNCHANGED genVars
  /\ UNCHANGED timerVars

\* a goblin cue call with no goblin id or no volume
NoGoblin == 0
NoVolume == [num |-> 0, den |-> 0]

stopAllGoblinSounds == [call |-> "stopAllGoblinSounds", id |-> NoGoblin, volume |-> NoVolume]
stopGoblinSound(id) == [call |-> "stopGoblinSound", id |-> id, volume |-> NoVolume]
startGoblinSound(id, volume) == [call |-> "startGoblinSound", id |-> id, volume |-> volume]

\* a volume that fades to 0 at the distance after maxDistance
volumeFadesLater(distance) ==
  [num |-> Max(0, maxDistance + 1 - distance), den |-> maxDistance + 1]

\* index.tsx 147: Math.max(0, 1 - (distance / maxDistance)), as the fraction num/den
goblinVolume(distance) == [num |-> Max(0, maxDistance - distance), den |-> maxDistance]

\* index.tsx 131-156: the call made for one goblin
goblinCue(goblin, playerPos) ==
  LET distance == getDistance(goblin.position, playerPos)
  IN  IF distance <= maxDistance
        THEN startGoblinSound(goblin.id, goblinVolume(distance))
        ELSE stopGoblinSound(goblin.id)

\* index.tsx 106-157: the proximity sampling interval of startGoblinAudio fires
GoblinAudioTick ==
  /\ pc = "run"
  /\ LET currentState == gameState
         currentGoblinIds == {currentState.goblins[i].id : i \in DOMAIN currentState.goblins}
         cues == {goblinCue(currentState.goblins[i], currentState.playerPosition) :
                    i \in DOMAIN currentState.goblins}
     IN  IF currentState.status # "playing"
           THEN /\ audioRequests' = {stopAllGoblinSounds}
                /\ activeGoblinIds' = {}
           ELSE /\ audioRequests' =
                     {stopGoblinSound(id) : id \in activeGoblinIds \ currentGoblinIds} \cup cues
                /\ activeGoblinIds' =
                     {r.id : r \in {q \in cues : q.call = "startGoblinSound"}}
  /\ UNCHANGED <<pc, grid, start, end, current, lastDirection, straightCount,
                 roomCount, pathLength, rnd, probe, collaborator>>
  /\ UNCHANGED <<gameState, moves, ticks, tapAge, lastLog, isHearing, hears, hearLog,
                 goblinIntervals, resets>>
  /\ UNCHANGED timerVars

\* the steps of the program within the bounds B
Step(B) ==
  \/ PickStartEnd(B.startEnd)
  \/ CarveStep(B.random)
  \/ CarveBreak
  \/ FallbackStep
  \/ GridReturn
  \/ InitializeGame(B.goblinDraw)
  \/ GoblinTick
  \/ \E direction \in Direction : HandleMove(direction, B.inFlight)
  \/ \E i \in 1 .. B.inFlight : MoveAfterStep(i)
  \/ \E i \in 1 .. B.inFlight : MoveAfterTrapCue(i, B.tickTimeouts)
  \/ \E i \in 1 .. B.inFlight : MoveCommitWin(i)
  \/ \E k \in 1 .. MaxTrapTimers : TrapTimerFire(k)
  \/ RestartTimerFire
  \/ HandleDoubleTap
  \/ TimePasses
  \/ ResetGame(B.resets)

Bounds ==
  [startEnd |-> NumStartEnd, random |-> MaxRandom,
   goblinDraw |-> MaxGoblinDraw, inFlight |-> MaxInFlightMoves,
   resets |-> MaxResets, tickTimeouts |-> MaxTickTimers]

Next == Step(Bounds)

Spec == Init /\ [][Next]_vars

\* two handleMove calls may be suspended at once, in greedy levels without goblins
RaceBounds ==
  [startEnd |-> RaceStartEnd, random |-> RaceRandom,
   goblinDraw |-> RaceGoblinDraw, inFlight |-> RaceInFlightMoves,
   resets |-> MaxResets, tickTimeouts |-> MaxTickTimers]

NextRace == Step(RaceBounds)

SpecRace == Init /\ [][NextRace]_vars

\* generateGrid alone; its loops are run to their end (gameLogic.ts 65, 202)
NextGrid ==
  \/ PickStartEnd(NumStartEnd)
  \/ CarveStep(MaxRandom)
  \/ CarveBreak
  \/ FallbackStep
  \/ GridReturn

SpecGrid == Init /\ [][NextGrid]_vars /\ WF_vars(NextGrid)

\* the first level and the one after it are told apart, in greedy levels
LevelBounds ==
  [startEnd |-> LevelStartEnd, random |-> LevelRandom,
   goblinDraw |-> LevelGoblinDraw, inFlight |-> LevelInFlightMoves,
   resets |-> LevelResets, tickTimeouts |-> MaxTickTimers]

NextLevel == Step(LevelBounds)

SpecLevel == Init /\ [][NextLevel]_vars

\* gameLogic.ts 406-445: the inputs of the goblin predicates, any goblin and
\* any player position of the 10x10 grid
InitPredicates ==
  /\ pc = "pick"
  /\ GenInit
  /\ gameState = NoGame
  /\ trapCountdown = NoCountdown
  /\ trapTimers = << >>
  /\ restartTimers = 0
  /\ moves = << >>
  /\ ticks = 0
  /\ tapAge = "old"
  /\ lastLog = NoLog
  /\ isHearing = FALSE
  /\ hears = << >>
  /\ hearLog = NoLog
  /\ goblinIntervals = 0
  /\ resets = 0
  /\ tickTimers = NoTicks
  /\ collaborator = "working"
  /\ activeGoblinIds = {}
  /\ audioRequests = {}
  /\ \E position \in Position, direction \in Direction, playerPos \in Position :
       probe = [NoProbe EXCEPT !.goblin = [id |-> 1, position |-> position,
                                          direction |-> direction],
                               !.playerPos = playerPos]

\* gameLogic.ts 406-445: isGoblinApproachingPlayer, isGoblinWalkingAway and
\* isGoblinAdjacentToPlayer are called on the inputs, and the ambush test of
\* handleMove and handleDoubleTap (index.tsx 338-347, 528-538) and the
\* decision of a double tap (530-583) on a level with this goblin alone
ApplyPredicates ==
  /\ ~probe.applied
  /\ probe' = [probe EXCEPT
                 !.applied = TRUE,
                 !.approaching = isGoblinApproachingPlayer(probe.goblin, probe.playerPos),
                 !.walkingAway = isGoblinWalkingAway(probe.goblin, probe.playerPos),
                 !.adjacent = isGoblinAdjacentToPlayer(probe.goblin, probe.playerPos),
                 !.ambushing = isAmbushing(probe.goblin, probe.playerPos),
                 !.doubleTap = doubleTapOutcome([NoGame EXCEPT
                                                   !.goblins = <<probe.goblin>>,
                                                   !.playerPosition = probe.playerPos,
                                                   !.status = "playing"])]
  /\ UNCHANGED <<pc, grid, start, end, current, lastDirection, straightCount,
                 roomCount, pathLength, rnd>>
  /\ UNCHANGED <<gameState, trapCountdown, trapTimers, restartTimers, moves, ticks,
                 tapAge, lastLog, isHearing, hears, hearLog, goblinIntervals, resets,
                 tickTimers, collaborator, activeGoblinIds, audioRequests>>

SpecPredicates == InitPredicates /\ [][ApplyPredicates]_vars

\* the tick timeouts of the trap countdown are tracked, in greedy levels
\* without goblins
TrapBounds ==
  [startEnd |-> TrapStartEnd, random |-> TrapRandom,
   goblinDraw |-> TrapGoblinDraw, inFlight |-> TrapInFlightMoves,
   resets |-> MaxResets, tickTimeouts |-> TrapTickTimers]

NextTrap ==
  \/ Step(TrapBounds)
  \/ \E cancelled \in BOOLEAN : TickTimerFire(cancelled)

SpecTrap == Init /\ [][NextTrap]_vars

\* one finger swipes (Hear) join the other gestures, in greedy levels
HearBounds ==
  [startEnd |-> HearStartEnd, random |-> HearRandom,
   goblinDraw |-> HearGoblinDraw, inFlight |-> HearInFlightMoves,
   resets |-> MaxResets, tickTimeouts |-> MaxTickTimers]

NextHear ==
  \/ Step(HearBounds)
  \/ \E direction \in Direction : HandleHear(direction, MaxInFlightHears)
  \/ \E i \in 1 .. MaxInFlightHears : HearResult(i)
  \/ \E i \in 1 .. MaxInFlightHears : HearFinish(i)

SpecHear == Init /\ [][NextHear]_vars

\* the collaborator works or fails for the whole session; all gestures, in
\* greedy levels without goblins
CueBounds ==
  [startEnd |-> CueStartEnd, random |-> CueRandom,
   goblinDraw |-> CueGoblinDraw, inFlight |-> CueInFlightMoves,
   resets |-> MaxResets, tickTimeouts |-> MaxTickTimers]

InitCue == \E c \in CollaboratorState : InitWith(c)

NextCue ==
  \/ Step(CueBounds)
  \/ \E direction \in Direction : HandleHear(direction, CueInFlightHears)
  \/ \E i \in 1 .. CueInFlightHears : HearResult(i)
  \/ \E i \in 1 .. CueInFlightHears : HearFinish(i)

SpecCue == InitCue /\ [][NextCue]_vars

\* the proximity sampling interval joins the handlers and timers, in levels
\* with goblins
AudioBounds ==
  [startEnd |-> AudioStartEnd, random |-> AudioRandom,
   goblinDraw |-> AudioGoblinDraw, inFlight |-> AudioInFlightMoves,
   resets |-> MaxResets, tickTimeouts |-> MaxTickTimers]

NextAudio ==
  \/ Step(AudioBounds)
  \/ GoblinAudioTick

SpecAudio == Init /\ [][NextAudio]_vars

(***************************************************************************)
(* Properties of generateGrid                                              *)
(***************************************************************************)
RECURSIVE reachableFrom(_, _)
\* the Path cells of g joined to a cell of S by a 4-neighbour walk over Path cells
reachableFrom(g, S) ==
  LET N == S \cup {p \in PathCells(g) : \E q \in S : getDistance(p, q) = 1}
  IN  IF N = S THEN S ELSE reachableFrom(g, N)

\* C1: in every grid generateGrid returns, end is reachable from start by a
\* 4-neighbour walk over Path cells
C1_EndReachable ==
  pc = "generated" => (isPath(grid, start) /\ end \in reachableFrom(grid, {start}))

\* a returned grid in which the generator placed a room
C1_Witness ==
  /\ pc = "generated"
  /\ roomCount > 0
  /\ Cardinality(PathCells(grid)) > getDistance(start, end) + 1
  /\ end \in reachableFrom(grid, {start})

\* C2: start and end of every returned grid are in bounds, distinct, at
\* Manhattan distance of at least 5, and both are Path cells
C2_StartEndContract ==
  pc = "generated" =>
    /\ isValidPosition(start) /\ isValidPosition(end)
    /\ start # end
    /\ getDistance(start, end) >= 5
    /\ isPath(grid, start) /\ isPath(grid, end)

\* a returned grid whose start and end are at the minimal distance
C2_Witness ==
  /\ pc = "generated"
  /\ getDistance(start, end) = 5
  /\ isPath(grid, start) /\ isPath(grid, end)

(***************************************************************************)
(* Properties of the game state machine                                    *)
(***************************************************************************)
\* the goblin is at distance 0 or 1 and its next step lands on cell p
ambushes(goblin, p) ==
  /\ Abs(goblin.position.x - p.x) + Abs(goblin.position.y - p.y) \in {0, 1}
  /\ getAdjacentPosition(goblin.position, goblin.direction) = p

\* the goblin is at distance exactly 1 of cell p and its next step takes it further
walksAway(goblin, p) ==
  LET n == getAdjacentPosition(goblin.position, goblin.direction)
  IN  /\ Abs(goblin.position.x - p.x) + Abs(goblin.position.y - p.y) = 1
      /\ Abs(n.x - p.x) + Abs(n.y - p.y) > 1

\* the cell is outside the grid or a Wall of grid g
offGridOrWall(g, p) ==
  p.x \notin Coord \/ p.y \notin Coord \/ g[p.y][p.x] = 0

C4_Ambush ==
  [][\A direction \in Direction :
       (/\ HandleMove(direction, MaxInFlightMoves)
        /\ gameState.status = "playing"
        /\ \E i \in DOMAIN gameState.goblins :
             ambushes(gameState.goblins[i], gameState.playerPosition))
       => /\ gameState'.status = "dead"
          /\ gameState'.playerPosition = gameState.playerPosition]_vars

\* the player has died of a move made while a goblin was about to step onto it
C4_Witness ==
  /\ lastLog = "Goblin approaching! Player dies..."
  /\ gameState.status = "dead"
  /\ \E i \in DOMAIN gameState.goblins :
       ambushes(gameState.goblins[i], gameState.playerPosition)

\* C5: a Move in Playing to an in-bounds Path cell with no ambushing goblin is
\* taken up, and when it is committed playerPosition is its target and status
\* is Won if the target is endPosition, Playing otherwise
C5_ValidMove ==
  [][/\ \A direction \in Direction :
          LET target == getAdjacentPosition(gameState.playerPosition, direction)
          IN  (/\ HandleMove(direction, MaxInFlightMoves)
               /\ gameState.status = "playing"
               /\ ~offGridOrWall(gameState.grid, target)
               /\ ~\E i \in DOMAIN gameState.goblins :
                     ambushes(gameState.goblins[i], gameState.playerPosition))
              => /\ moves' = Append(moves, [snap |-> gameState, newPos |-> target,
                                            at |-> "step"])
                 /\ gameState' = gameState
     /\ \A i \in DOMAIN moves :
          (/\ Len(moves') < Len(moves)
           /\ MoveAfterStep(i) \/ MoveAfterTrapCue(i, MaxTickTimers) \/ MoveCommitWin(i))
          => /\ gameState'.playerPosition = moves[i].newPos
             /\ gameState'.status =
                  IF moves[i].newPos = gameState'.endPosition THEN "won" ELSE "playing"]_vars

\* the player has won by a move onto endPosition
C5_Witness ==
  /\ lastLog = "Valid move! Moving to:"
  /\ gameState.status = "won"
  /\ gameState.playerPosition = gameState.endPosition
  /\ moves = << >>

\* C6: a trap countdown sets status to Dead only while the player stands on
\* the trap cell it was started for: once the player has moved off that cell
\* the countdown is cancelled and never kills (stated for the countdowns that
\* expire when the last thing the player did was a valid move)
C6_TrapCountdown ==
  [][\A k \in DOMAIN trapTimers :
       (TrapTimerFire(k) /\ lastLog = "Valid move! Moving to:")
       => gameState.playerPosition = trapTimers[k].cell]_vars

\* C7: a second tap within the window, in Playing, with no ambushing goblin
\* and some goblin at distance 1 walking away, removes exactly one such goblin
\* and changes nothing else of the game state
C7_Backstab ==
  [][(/\ HandleDoubleTap
      /\ gameState.status = "playing"
      /\ tapAge = "within"
      /\ ~\E i \in DOMAIN gameState.goblins :
            ambushes(gameState.goblins[i], gameState.playerPosition)
      /\ \E i \in DOMAIN gameState.goblins :
            walksAway(gameState.goblins[i], gameState.playerPosition))
     => \E i \in DOMAIN gameState.goblins :
          /\ walksAway(gameState.goblins[i], gameState.playerPosition)
          /\ gameState' = [gameState EXCEPT !.goblins = RemoveAt(gameState.goblins, i)]]_vars

\* goblin 1 has been backstabbed and goblin 2 is left
C7_Witness ==
  /\ lastLog = "Backstab! Killing goblin:"
  /\ gameState.status = "playing"
  /\ Len(gameState.goblins) = 1
  /\ gameState.goblins[1].id = 2

\* C8: a second tap within the window, in Playing, while some goblin at
\* distance 0 or 1 is about to step onto the player sets status to Dead and
\* removes no goblin, even if another goblin at distance 1 is walking away
C8_AmbushPrecedence ==
  [][(/\ HandleDoubleTap
      /\ gameState.status = "playing"
      /\ tapAge = "within"
      /\ \E i \in DOMAIN gameState.goblins :
            ambushes(gameState.goblins[i], gameState.playerPosition))
     => gameState' = [gameState EXCEPT !.status = "dead"]]_vars

\* the player has died of a double tap with one goblin approaching and
\* another one walking away, and both goblins are still there
C8_Witness ==
  /\ lastLog = "Attacked approaching goblin! Player dies..."
  /\ gameState.status = "dead"
  /\ \E i \in DOMAIN gameState.goblins :
       ambushes(gameState.goblins[i], gameState.playerPosition)
  /\ \E i \in DOMAIN gameState.goblins :
       walksAway(gameState.goblins[i], gameState.playerPosition)

\* C9: every goblin of the game state stands on an in-bounds Path cell
C9_GoblinsOnPath ==
  \A i \in DOMAIN gameState.goblins :
    ~offGridOrWall(gameState.grid, gameState.goblins[i].position)

\* a goblin has walked onto the start cell, where no goblin is placed
C9_Witness ==
  /\ ticks > 0
  /\ \E i \in DOMAIN gameState.goblins :
       gameState.goblins[i].position = gameState.startPosition
  /\ ~offGridOrWall(gameState.grid, gameState.startPosition)

\* C10: the traps and goblins initializeGame places are on Path cells, none
\* on start or end, no goblin on the player's initial cell, and the trap
\* positions, like the goblin positions, are pairwise distinct
C10_Placement ==
  [][(pc = "generated" /\ pc' = "run") =>
       LET traps == gameState'.trapPositions
           gobs == gameState'.goblins
       IN  /\ \A i \in DOMAIN traps :
                ~offGridOrWall(grid, traps[i]) /\ traps[i] # start /\ traps[i] # end
           /\ \A i \in DOMAIN gobs :
                /\ ~offGridOrWall(grid, gobs[i].position)
                /\ gobs[i].position # start /\ gobs[i].position # end
                /\ gobs[i].position # gameState'.playerPosition
           /\ \A i, j \in DOMAIN traps : i # j => traps[i] # traps[j]
           /\ \A i, j \in DOMAIN gobs : i # j => gobs[i].position # gobs[j].position]_vars

\* a level that has just been populated with two traps and two goblins
C10_Witness ==
  /\ pc = "run"
  /\ ticks = 0 /\ moves = << >> /\ lastLog = NoLog
  /\ gameState.status = "playing"
  /\ gameState.playerPosition = gameState.startPosition
  /\ Len(gameState.trapPositions) = 2
  /\ Len(gameState.goblins) = 2

\* the ids of the goblins of game state gs
goblinIds(gs) == {gs.goblins[i].id : i \in DOMAIN gs.goblins}

\* C11: within a level the goblin ids are pairwise distinct and no id comes
\* back once it has left goblins
C11_GoblinIds ==
  [][(pc = "run" /\ pc' = "run") =>
       /\ \A i, j \in DOMAIN gameState'.goblins :
            i # j => gameState'.goblins[i].id # gameState'.goblins[j].id
       /\ goblinIds(gameState') \subseteq goblinIds(gameState)]_vars

\* C12: status changes only from Playing to Dead or Won, from Dead to
\* Playing by restart-current-level (same level, player at start) and from
\* Won by continue; while Dead, status and playerPosition do not change
C12_StatusEdges ==
  [][(pc = "run" /\ pc' = "run") =>
       /\ gameState.status = "dead" =>
            \/ /\ gameState'.status = "dead"
               /\ gameState'.playerPosition = gameState.playerPosition
            \/ gameState' = [gameState EXCEPT !.playerPosition = gameState.startPosition,
                                              !.status = "playing"]
       /\ gameState.status = "won" => gameState'.status = "won"]_vars

\* the messages logged when the player dies
DeathLog ==
  {"Fell off edge! Dying...", "Hit a wall / moved in wrong direction! Dying...",
   "Goblin approaching! Player dies...", "Trap triggered! Player dies...",
   "Attacked approaching goblin! Player dies..."}

\* C13: restart-current-level sets playerPosition to startPosition and status
\* to Playing, clears the trap countdown and the timer it holds, and leaves
\* grid, startPosition, endPosition, trapPositions and goblins unchanged
C13_RestartFrame ==
  [][(pc = "run" /\ restartTimers' = restartTimers - 1) =>
       /\ gameState'.playerPosition = gameState.startPosition
       /\ gameState'.status = "playing"
       /\ gameState'.grid = gameState.grid
       /\ gameState'.startPosition = gameState.startPosition
       /\ gameState'.endPosition = gameState.endPosition
       /\ gameState'.trapPositions = gameState.trapPositions
       /\ gameState'.goblins = gameState.goblins
       /\ trapCountdown' = NoCountdown
       /\ \A k \in DOMAIN trapTimers' : ~trapTimers'[k].held]_vars

\* the level restarted after a death, with its goblins kept
C13_Witness ==
  /\ pc = "run"
  /\ lastLog \in DeathLog
  /\ restartTimers = 0
  /\ gameState.status = "playing"
  /\ gameState.playerPosition = gameState.startPosition
  /\ gameState.goblins # << >>

\* a step of a handleHear invocation
HearStep ==
  \/ \E direction \in Direction : HandleHear(direction, MaxInFlightHears)
  \/ \E i \in 1 .. MaxInFlightHears : HearResult(i)
  \/ \E i \in 1 .. MaxInFlightHears : HearFinish(i)

\* C14: no step of Hear changes gameState, whatever the adjacent cell is and
\* also when the call is made while isHearing is set
C14_HearReadOnly == [][HearStep => gameState' = gameState]_vars

\* a Hear was called while isHearing was set, after a Hear toward a path cell
C14_Witness ==
  /\ pc = "run"
  /\ isHearing
  /\ gameState.status = "playing"
  /\ hearLog = "Hear blocked - isHearing: true status: playing"
  /\ \E i \in DOMAIN hears : hears[i].cue = "Path detected - playing cave sound"

\* C15: at most one Hear is in flight at any time
C15_OneHearInFlight == Len(hears) <= 1

RECURSIVE simplePaths(_, _, _, _)
\* the number of 4-neighbour walks over Path cells of g from p to e that visit
\* no cell twice and avoid the cells of seen
simplePaths(g, p, e, seen) ==
  IF p = e THEN 1
  ELSE LET through(dir) ==
             LET n == getAdjacentPosition(p, dir)
             IN  IF isValidPosition(n) /\ isPath(g, n) /\ n \notin seen
                   THEN simplePaths(g, n, e, seen \cup {n})
                   ELSE 0
       IN  through("up") + through("down") + through("left") + through("right")

\* C17: in every grid generateGrid returns there is exactly one simple
\* 4-neighbour path of Path cells from start to end
C17_UniquePath ==
  pc = "generated" => simplePaths(grid, start, end, {start}) = 1

\* C18: restart-current-level executes only while status is Dead
C18_RestartOnlyWhenDead ==
  [][(pc = "run" /\ restartTimers' = restartTimers - 1) =>
       gameState.status = "dead"]_vars

\* C19: no trap death timer is pending while status is Dead
C19_NoTrapTimerWhileDead ==
  (pc = "run" /\ gameState.status = "dead") => trapTimers = << >>

\* C20: a goblin motion tick changes nothing when status is not Playing (the
\* ticks that change something are counted by ticks); when status is Playing
\* it changes only positions and directions of goblins:
\* grid, playerPosition, start, end, traps and status are unchanged and the
\* number, order and ids of the goblins are preserved
C20_TickFrame ==
  [][(pc = "run" /\ ticks' = ticks + 1) =>
       /\ gameState.status = "playing"
       /\ gameState'.grid = gameState.grid
       /\ gameState'.playerPosition = gameState.playerPosition
       /\ gameState'.startPosition = gameState.startPosition
       /\ gameState'.endPosition = gameState.endPosition
       /\ gameState'.trapPositions = gameState.trapPositions
       /\ gameState'.status = gameState.status
       /\ Len(gameState'.goblins) = Len(gameState.goblins)
       /\ \A i \in DOMAIN gameState.goblins :
            gameState'.goblins[i].id = gameState.goblins[i].id]_vars

\* a tick has put a goblin on the cell of the player, who is still Playing
C20_Witness ==
  /\ pc = "run"
  /\ ticks > 0
  /\ lastLog = NoLog
  /\ gameState.status = "playing"
  /\ \E i \in DOMAIN gameState.goblins :
       gameState.goblins[i].position = gameState.playerPosition

\* C21: the state after a committed Move has exactly the goblins of the state
\* just before the commit: no tick or Backstab that took effect between the
\* Move's decision and its commit is lost or reverted
C21_CommitKeepsGoblins ==
  [][(pc = "run" /\ Len(moves') < Len(moves)) =>
       gameState'.goblins = gameState.goblins]_vars

\* a Move, Hear or double-tap request is handled
RequestStep ==
  \/ \E direction \in Direction : HandleMove(direction, HearInFlightMoves)
  \/ \E direction \in Direction : HandleHear(direction, MaxInFlightHears)
  \/ HandleDoubleTap

\* C22: a Move, Hear or Backstab request that arrives while status is Dead or
\* Won leaves gameState unchanged, schedules no timer, starts no invocation
\* that would emit a cue and leaves isHearing as it is
C22_BlockedRequests ==
  [][(pc = "run" /\ gameState.status # "playing" /\ RequestStep) =>
       /\ gameState' = gameState
       /\ trapCountdown' = trapCountdown
       /\ trapTimers' = trapTimers
       /\ restartTimers' = restartTimers
       /\ moves' = moves
       /\ hears' = hears
       /\ isHearing' = isHearing
       /\ lastLog' = lastLog]_vars

\* a Hear was requested and blocked while the player was Dead, the restart
\* still pending
C22_Witness ==
  /\ pc = "run"
  /\ gameState.status = "dead"
  /\ restartTimers = 1
  /\ hears = << >>
  /\ hearLog = "Hear blocked - isHearing: false status: dead"

\* the cell at pos is inside the grid g and is Path
pathAt(g, pos) == isValidPosition(pos) /\ g[pos.y][pos.x] = 1

\* goblin b is what the movement rule allows for goblin a on grid g
movedByRule(a, b, g) ==
  LET ahead == getAdjacentPosition(a.position, a.direction)
      open == {dir \in Direction : pathAt(g, getAdjacentPosition(a.position, dir))}
  IN  /\ b.id = a.id
      /\ IF pathAt(g, ahead)
            THEN b.position = ahead /\ b.direction = a.direction
          ELSE IF open # {}
            THEN /\ b.direction \in open
                 /\ b.position = getAdjacentPosition(a.position, b.direction)
          ELSE b.position = a.position /\ b.direction = a.direction
      /\ (b.position = a.position) <=> (open = {})

\* C23: on a tick every goblin continues ahead with its direction unchanged if
\* the cell ahead is Path, otherwise steps in a direction whose cell is Path
\* and takes that direction, and stays in place iff no neighbour is Path;
\* moveGoblin gives the same results for every player position
C23_MoveGoblin ==
  [][(pc = "run" /\ ticks' = ticks + 1) =>
       \A i \in DOMAIN gameState.goblins :
         /\ movedByRule(gameState.goblins[i], gameState'.goblins[i], gameState.grid)
         /\ \A playerPos \in Position :
              moveGoblin(gameState.goblins[i], gameState.grid, playerPos)
                = moveGoblin(gameState.goblins[i], gameState.grid,
                             gameState.playerPosition)]_vars

\* a tick turned a goblin while a Move decided before the tick is suspended
C23_Witness ==
  /\ pc = "run"
  /\ ticks = 1
  /\ moves # << >>
  /\ Len(moves[1].snap.goblins) = Len(gameState.goblins)
  /\ \E i \in DOMAIN gameState.goblins :
       /\ moves[1].snap.goblins[i].direction # gameState.goblins[i].direction
       /\ moves[1].snap.goblins[i].position # gameState.goblins[i].position

\* C24: for every goblin position, direction and player position of the grid,
\* isGoblinApproachingPlayer is true iff the cell one step ahead of the goblin
\* is playerPos, isGoblinWalkingAway iff the Manhattan distance is exactly 1
\* and the cell one step ahead is farther from the player, and
\* isGoblinAdjacentToPlayer iff getDistance is exactly 1
C24_GoblinPredicates ==
  probe.applied =>
    LET goblin == probe.goblin
        playerPos == probe.playerPos
        ahead == getAdjacentPosition(goblin.position, goblin.direction)
        distance == Abs(goblin.position.x - playerPos.x) + Abs(goblin.position.y - playerPos.y)
        distanceAhead == Abs(ahead.x - playerPos.x) + Abs(ahead.y - playerPos.y)
    IN  /\ probe.approaching <=> ahead = playerPos
        /\ probe.walkingAway <=> (distance = 1 /\ distanceAhead > distance)
        /\ probe.adjacent <=> getDistance(goblin.position, playerPos) = 1

\* the predicates were applied to a goblin in the corner (0,0) that faces off
\* the grid with the player next to it: walking away, adjacent, not approaching
C24_Witness ==
  /\ probe.applied
  /\ probe.goblin.position = Pos(0, 0)
  /\ probe.goblin.direction = "up"
  /\ probe.playerPos = Pos(0, 1)
  /\ probe.walkingAway
  /\ probe.adjacent
  /\ ~probe.approaching

\* C25: a tap changes gameState or schedules a restart only if status is
\* Playing and the time since the last recorded tap is more than 0 and less
\* than 300 ms; any other tap in Playing (first tap, tap after 300 ms or more,
\* double tap with no ambushing and no retreating goblin) leaves gameState
\* alone and only records its time as the time of the last tap
C25_TapWindow ==
  [][HandleDoubleTap =>
       /\ (gameState' # gameState \/ restartTimers' # restartTimers) =>
            (gameState.status = "playing" /\ tapAge = "within")
       /\ (/\ gameState.status = "playing"
           /\ (tapAge # "within"
                 \/ (approachingGoblin(gameState) = 0 /\ goblinWalkingAway(gameState) = 0))) =>
            /\ gameState' = gameState
            /\ restartTimers' = restartTimers
            /\ lastLog' = lastLog
            /\ tapAge' = "zero"]_vars

\* a tap was just recorded and the retreating goblin next to the player, there
\* since the level began, is still in goblins
C25_Witness ==
  /\ pc = "run"
  /\ tapAge = "zero"
  /\ ticks = 0
  /\ lastLog = NoLog
  /\ moves = << >>
  /\ gameState.status = "playing"
  /\ goblinWalkingAway(gameState) # 0

\* C26: a double tap that kills a goblin or the player resets the time of the
\* last tap to 0, and a tap that follows such a reset, however soon, is not
\* evaluated as a Backstab
C26_NoTripleTap ==
  [][HandleDoubleTap =>
       /\ (gameState' # gameState) => tapAge' = "old"
       /\ (tapAge = "old") => (gameState' = gameState /\ restartTimers' = restartTimers)]_vars

\* a goblin was just backstabbed and the next tap would find another goblin
C26_Witness ==
  /\ pc = "run"
  /\ lastLog = "Backstab! Killing goblin:"
  /\ tapAge = "old"
  /\ gameState.status = "playing"
  /\ (goblinWalkingAway(gameState) # 0 \/ approachingGoblin(gameState) # 0)

\* the remaining seconds a trap countdown starts from
TrapCountdownStart == 5

\* C27: once a valid Move has committed onto a trap cell and while the death
\* timer of that trap is pending, the remaining seconds of the trap countdown
\* are a number from 0 to 5 (set to 5, one less on each tick); they are null
\* whenever the player is not on a trap
C27_CountdownValue ==
  pc = "run" =>
    /\ (\E k \in DOMAIN trapTimers : trapTimers[k].held) =>
         trapCountdown \in 0 .. TrapCountdownStart
    /\ ~isTrap(gameState.playerPosition, gameState.trapPositions) =>
         trapCountdown = NoCountdown

\* C28: once a trap countdown has been cancelled none of its pending ticks
\* fires any more (stated for the states whose last handled request was a
\* valid Move, so that the cancellation is by a move off the trap)
C28_NoStaleTick ==
  [][(pc = "run" /\ lastLog = "Valid move! Moving to:" /\ gameState.status = "playing") =>
       tickTimers'.stale >= tickTimers.stale]_vars

\* C29: after start and end are chosen the path construction terminates: every
\* iteration of the carving loop turns one Wall cell into Path (at most 100
\* iterations), every step of the fallback walk reduces the Manhattan distance
\* to end by one, x first and then y, within 2 x 10 steps, and the grid is
\* returned
C29_Terminates ==
  /\ [][/\ (pc = "carve" /\ pathLength' # pathLength) =>
            /\ grid[current'.y][current'.x] = 0
            /\ grid'[current'.y][current'.x] = 1
            /\ pathLength' = pathLength + 1
            /\ pathLength' <= GRID_SIZE * GRID_SIZE
       /\ (pc = "fallback" /\ current' # current) =>
            /\ getDistance(current', end) = getDistance(current, end) - 1
            /\ getDistance(current, end) <= 2 * GRID_SIZE
            /\ (current.x # end.x) => (current'.y = current.y)]_vars
  /\ (pc = "carve") ~> (pc = "generated")

\* the fallback walk has finished the x part and is walking in y
C29_Witness ==
  /\ pc = "fallback"
  /\ pathLength > 1
  /\ current.x = end.x
  /\ current.y # end.y
  /\ getDistance(current, start) > 1

\* C30: in every state of a level no trap and no goblin is on startPosition
\* or endPosition
C30_StartEndFree ==
  pc = "run" =>
    /\ \A k \in DOMAIN gameState.trapPositions :
         /\ gameState.trapPositions[k] # gameState.startPosition
         /\ gameState.trapPositions[k] # gameState.endPosition
    /\ \A i \in DOMAIN gameState.goblins :
         /\ gameState.goblins[i].position # gameState.startPosition
         /\ gameState.goblins[i].position # gameState.endPosition

(***************************************************************************)
(* The audio/haptic collaborator                                           *)
(***************************************************************************)
\* a step of a handler or a timer that requests cues, taken with collaborator c
CueStepWith(c) ==
  \/ \E direction \in Direction : HandleMoveWith(direction, CueInFlightMoves, c)
  \/ \E i \in 1 .. CueInFlightMoves :
       \/ MoveAfterStepWith(i, c)
       \/ MoveAfterTrapCueWith(i, MaxTickTimers, c)
       \/ MoveCommitWinWith(i, c)
  \/ \E k \in 1 .. MaxTrapTimers : TrapTimerFireWith(k, c)
  \/ \E i \in 1 .. CueInFlightHears : HearResultWith(i, c)

\* C31: game-state progression does not depend on the audio/haptic
\* collaborator: every step of handleMove, of handleHear and of the trap
\* death timer leads to the same GameState, pending timers and suspended
\* handlers whether the cue and haptic calls succeed or fail
C31_CueIndependence ==
  [][CueStepWith(collaborator) =>
       \A c \in CollaboratorState : CueStepWith(c)]_vars

\* the level was won with a collaborator whose calls fail
C31_Witness ==
  /\ pc = "run"
  /\ collaborator = "failing"
  /\ gameState.status = "won"
  /\ gameState.playerPosition = gameState.endPosition

(***************************************************************************)
(* The proximity sampling tick                                             *)
(***************************************************************************)
\* the volume the tick requests at each audible distance: 1, 2/3, 1/3, 0
volumeAt(distance) ==
  CASE distance = 0 -> [num |-> 3, den |-> 3]
    [] distance = 1 -> [num |-> 2, den |-> 3]
    [] distance = 2 -> [num |-> 1, den |-> 3]
    [] distance = 3 -> [num |-> 0, den |-> 3]

\* C32: the proximity sampling tick never changes GameState; in Playing it
\* requests for each goblin at Manhattan distance d <= 3 the volume
\* max(0, 1 - d/3), which is 1, 2/3, 1/3, 0 for d = 0..3 and lies in [0,1], and
\* stops the cue of every goblin with d > 3 or no longer in goblins; when
\* status is not Playing it stops all goblin cues
C32_ProximityTick ==
  [][GoblinAudioTick =>
       /\ gameState' = gameState
       /\ gameState.status # "playing" => audioRequests' = {stopAllGoblinSounds}
       /\ gameState.status = "playing" =>
            /\ \A i \in DOMAIN gameState.goblins :
                 LET goblin == gameState.goblins[i]
                     d == Abs(goblin.position.x - gameState.playerPosition.x)
                            + Abs(goblin.position.y - gameState.playerPosition.y)
                 IN  IF d <= 3
                       THEN /\ [call |-> "startGoblinSound", id |-> goblin.id,
                                volume |-> volumeAt(d)] \in audioRequests'
                            /\ stopGoblinSound(goblin.id) \notin audioRequests'
                       ELSE /\ stopGoblinSound(goblin.id) \in audioRequests'
                            /\ \A r \in audioRequests' :
                                 r.id = goblin.id => r.call = "stopGoblinSound"
            /\ \A id \in activeGoblinIds :
                 (\A i \in DOMAIN gameState.goblins : gameState.goblins[i].id # id)
                   => stopGoblinSound(id) \in audioRequests'
            /\ \A r \in audioRequests' :
                 r.call = "startGoblinSound" =>
                   0 <= r.volume.num /\ r.volume.num <= r.volume.den]_vars

\* a tick in Playing asked for the cue of a goblin next to the player at 2/3
\* of the volume
C32_Witness ==
  /\ pc = "run"
  /\ gameState.status = "playing"
  /\ \E i \in DOMAIN gameState.goblins :
       /\ getDistance(gameState.goblins[i].position, gameState.playerPosition) = 1
       /\ gameState.goblins[i].id \in activeGoblinIds
       /\ audioRequests = {[call |-> "startGoblinSound", id |-> gameState.goblins[i].id,
                            volume |-> [num |-> 2, den |-> 3]]}

\* a tick in Playing stopped the cue of a goblin that is out of range
C32_WitnessOutOfRange ==
  /\ pc = "run"
  /\ gameState.status = "playing"
  /\ \E i \in DOMAIN gameState.goblins :
       /\ getDistance(gameState.goblins[i].position, gameState.playerPosition) > 3
       /\ audioRequests = {stopGoblinSound(gameState.goblins[i].id)}

\* a tick after a backstab stopped the cue of the removed goblin
C32_WitnessRemoved ==
  /\ pc = "run"
  /\ gameState.status = "playing"
  /\ \E r \in audioRequests :
       /\ r.call = "stopGoblinSound"
       /\ \A i \in DOMAIN gameState.goblins : gameState.goblins[i].id # r.id

\* a tick in a Dead state stopped all goblin cues
C32_WitnessDead ==
  /\ pc = "run"
  /\ gameState.status = "dead"
  /\ audioRequests = {stopAllGoblinSounds}

(***************************************************************************)
(* The cue of Hear                                                         *)
(***************************************************************************)
\* the cue behind each message of handleHear: playCaveSound or playWindSound
cueOf(message) ==
  IF message = "Path detected - playing cave sound" THEN "cave" ELSE "wind"

\* the cell next to pos in a direction, by coordinates
cellTowards(pos, direction) ==
  CASE direction = "up" -> [x |-> pos.x, y |-> pos.y - 1]
    [] direction = "down" -> [x |-> pos.x, y |-> pos.y + 1]
    [] direction = "left" -> [x |-> pos.x - 1, y |-> pos.y]
    [] direction = "right" -> [x |-> pos.x + 1, y |-> pos.y]

\* C33: a Hear(direction) that is not blocked requests the Cave cue if and
\* only if the adjacent cell in that direction is in bounds and Path, and
\* the Wind cue otherwise, judged on the player position and the grid at
\* the time of the request
C33_HearCue ==
  [][/\ \A direction \in Direction :
          (/\ HandleHear(direction, MaxInFlightHears)
           /\ ~isHearing /\ gameState.status = "playing")
          => LET cell == cellTowards(gameState.playerPosition, direction)
                 open == /\ cell.x \in 0 .. 9 /\ cell.y \in 0 .. 9
                         /\ gameState.grid[cell.y][cell.x] = 1
             IN  /\ Len(hears') = Len(hears) + 1
                 /\ cueOf(hears'[Len(hears')].cue) = IF open THEN "cave" ELSE "wind"
     /\ \A i \in 1 .. MaxInFlightHears :
          HearResult(i) => /\ hearLog' = hears[i].cue
                           /\ hears'[i].cue = hears[i].cue
     /\ Len(hears') = Len(hears) =>
          \A i \in DOMAIN hears : hears'[i].cue = hears[i].cue]_vars

\* the Cave cue of a Hear still in flight was requested, on a level where
\* the player has made a valid move away from the start cell
C33_Witness ==
  /\ pc = "run"
  /\ hearLog = "Path detected - playing cave sound"
  /\ \E i \in DOMAIN hears : hears[i].at = "cue" /\ hears[i].cue = hearLog
  /\ gameState.playerPosition # gameState.startPosition
  /\ lastLog = "Valid move! Moving to:"

(***************************************************************************)
(* The goblin on the player's cell                                         *)
(***************************************************************************)
\* C34: isGoblinApproachingPlayer(goblin, playerPos) implies that the
\* Manhattan distance between goblin and player is exactly 1, so the ambush
\* test of Move and of the double tap never holds for a goblin at distance 0:
\* a goblin standing on the player's cell never causes an ambush death
C34_ApproachingAtOne ==
  probe.applied =>
    LET distance == Abs(probe.goblin.position.x - probe.playerPos.x)
                      + Abs(probe.goblin.position.y - probe.playerPos.y)
    IN  /\ probe.approaching => distance = 1
        /\ probe.ambushing => distance = 1
        /\ distance = 0 => ~probe.ambushing

\* the tests were applied to a goblin standing on the player's cell
C34_Witness ==
  /\ probe.applied
  /\ probe.goblin.position = Pos(4, 4)
  /\ probe.playerPos = Pos(4, 4)
  /\ ~probe.approaching
  /\ ~probe.ambushing

(***************************************************************************)
(* The goblin next to the player                                           *)
(***************************************************************************)
\* C35: for every goblin at Manhattan distance exactly 1 from the player
\* exactly one of isGoblinApproachingPlayer and isGoblinWalkingAway holds
\* (a goblin facing sideways, into a wall or off the grid is walking away), so
\* a double tap evaluated with a goblin at distance 1 is never a no-op: it
\* kills the player or removes a goblin
C35_ApproachOrRetreat ==
  probe.applied =>
    LET distance == Abs(probe.goblin.position.x - probe.playerPos.x)
                      + Abs(probe.goblin.position.y - probe.playerPos.y)
    IN  distance = 1 =>
          /\ probe.approaching # probe.walkingAway
          /\ probe.doubleTap = (IF probe.approaching THEN "dead" ELSE "backstab")

\* the tests were applied to a goblin next to the player that faces sideways,
\* off the grid: it is walking away and a double tap removes it
C35_Witness ==
  /\ probe.applied
  /\ probe.goblin.position = Pos(1, 0)
  /\ probe.goblin.direction = "up"
  /\ probe.playerPos = Pos(0, 0)
  /\ probe.walkingAway
  /\ ~probe.approaching
  /\ probe.doubleTap = "backstab"

(***************************************************************************)
(* The carving loop and end                                                *)
(***************************************************************************)
\* the cells orthogonally adjacent to pos
neighbours(pos) ==
  {cell \in Position : Abs(cell.x - pos.x) + Abs(cell.y - pos.y) = 1}

\* C36: in generateGrid the carving loop and the room carving never turn a
\* cell orthogonally adjacent to end into Path and never step onto end, so
\* the loop never exits by reaching end; it always exits through the break
\* taken when there is no valid move, and end is joined to the carved path
\* only by the direct walk that follows the loop
C36_CarveStopsShort ==
  /\ [](pc = "carve" =>
          /\ current # end
          /\ grid[end.y][end.x] = 1
          /\ \A cell \in neighbours(end) : grid[cell.y][cell.x] = 0)
  /\ [][/\ (pc = "carve" /\ pc' = "carve") =>
            /\ current' # end
            /\ \A cell \in neighbours(end) : grid'[cell.y][cell.x] = 0
        /\ (pc = "carve" /\ pc' = "fallback") =>
            /\ current # end
            /\ Len(validMoves(grid, current)) = 0
            /\ \A cell \in neighbours(end) : grid[cell.y][cell.x] = 0
        /\ (pc = "fallback" /\ pc' = "generated") =>
            \E cell \in neighbours(end) : grid[cell.y][cell.x] = 1]_vars

\* the loop has carved a room and cells beyond it and has stopped by the break,
\* away from end, with every neighbour of end still a wall
C36_Witness ==
  /\ pc = "fallback"
  /\ current # end
  /\ roomCount > 0
  /\ pathLength > 7
  /\ Len(validMoves(grid, current)) = 0
  /\ \A cell \in neighbours(end) : grid[cell.y][cell.x] = 0

(***************************************************************************)
(* The player's cell                                                       *)
(***************************************************************************)
\* C37: in every reachable state playerPosition is an in-bounds Path cell of
\* the current grid, under every interleaving of moves, trap timers,
\* restarts and the generation of a new level
C37_PlayerOnPath ==
  pc = "run" =>
    /\ gameState.playerPosition.x \in 0 .. (GRID_SIZE - 1)
    /\ gameState.playerPosition.y \in 0 .. (GRID_SIZE - 1)
    /\ gameState.grid[gameState.playerPosition.y][gameState.playerPosition.x] = 1

\* the player stands on a trap cell away from start with its death timer
\* pending while another move is suspended
C37_Witness ==
  /\ pc = "run"
  /\ gameState.status = "playing"
  /\ gameState.playerPosition # gameState.startPosition
  /\ isTrap(gameState.playerPosition, gameState.trapPositions)
  /\ Len(trapTimers) > 0
  /\ Len(moves) > 0

(***************************************************************************)
(* Won and the end cell                                                    *)
(***************************************************************************)
\* C38: in every reachable state status is Won if and only if playerPosition
\* equals endPosition
C38_WonAtEnd ==
  pc = "run" =>
    (gameState.status = "won" <=> gameState.playerPosition = gameState.endPosition)

(***************************************************************************)
(* The trap death timers                                                   *)
(***************************************************************************)
\* C39: at most one trap death timer is pending at any time, and every
\* pending trap death timer is the one trapCountdownRef holds, so that it can
\* still be cancelled, also when two Moves on to trap cells are in flight at
\* once or the player steps from one trap cell on to another
C39_OneTrapTimer ==
  /\ Len(trapTimers) <= 1
  /\ \A k \in DOMAIN trapTimers : trapTimers[k].held

(***************************************************************************)
(* Goblins never stand still                                               *)
(***************************************************************************)
\* C40: on every grid returned by generateGrid every Path cell has at least
\* one orthogonal Path neighbour, so while status is Playing every goblin
\* changes its position on every motion tick: the remain-stationary branch
\* of moveGoblin is not taken in a generated level
C40_GoblinsAlwaysMove ==
  /\ [](pc = "generated" =>
          \A cell \in PathCells(grid) :
            \E next \in neighbours(cell) : grid[next.y][next.x] = 1)
  /\ [](pc = "run" =>
          \A i \in 1 .. Len(gameState.goblins) :
            /\ \E dir \in Direction :
                 isPath(gameState.grid, getAdjacentPosition(gameState.goblins[i].position, dir))
            /\ gameState.goblins[i] \notin
                 moveGoblin(gameState.goblins[i], gameState.grid, gameState.playerPosition))
  /\ [][(pc = "run" /\ ticks' = ticks + 1) =>
          /\ gameState.status = "playing"
          /\ Len(gameState'.goblins) = Len(gameState.goblins)
          /\ \A i \in 1 .. Len(gameState.goblins) :
               gameState'.goblins[i].position # gameState.goblins[i].position]_vars

\* a motion tick has run and a goblin stands in a dead end of the level,
\* facing a wall: its next tick has to turn it around
C40_Witness ==
  /\ pc = "run"
  /\ ticks > 0
  /\ gameState.status = "playing"
  /\ \E i \in 1 .. Len(gameState.goblins) :
       LET goblin == gameState.goblins[i]
       IN  /\ ~isPath(gameState.grid, getAdjacentPosition(goblin.position, goblin.direction))
           /\ Cardinality({dir \in Direction :
                 isPath(gameState.grid, getAdjacentPosition(goblin.position, dir))}) = 1

====
